---- MODULE Spec2Model ----
(***************************************************************************)
(* Model of the Linear MCP server: the tool and resource handlers           *)
(* (src/mcp_linear/main.py, src/linear_mcp/main.py) over the client facade *)
(* (src/mcp_linear/linear_client.py).                                      *)
(*                                                                         *)
(* Spec runs one invocation at a time.  The host invokes a handler, the    *)
(* handler calls a client operation, and every _execute_query call of the  *)
(* operation is one step: it appends the request (operation name +         *)
(* variables) to `sent` and draws the remote's response from the set of    *)
(* response shapes the code's .get() chains distinguish.  The step that    *)
(* ends the operation also makes the handler's reply.  ConcurrentSpec      *)
(* interleaves two invocations between their requests.                     *)
(*                                                                         *)
(* Python values are tagged records so that None, "", 0 and [] stay        *)
(* distinct: None, Str(s), Num(i), List(l).  A Python string is the       *)
(* sequence of its fragments, "" being <<>>; where the code inspects       *)
(* characters (status / state names, team identifiers) the fragments are   *)
(* single characters.                                                      *)
(***************************************************************************)
EXTENDS Integers, Sequences, FiniteSets, TLC

\* ------------------------------------------------------------------ bounds
\* Most workflow states the remote returns for one team.
MaxStates == 2

\* ------------------------------------------------------------ Python values
None == [none |-> TRUE]
Str(s) == [str |-> s]
Num(i) == [int |-> i]
List(l) == [list |-> l]

IsNone(v) == "none" \in DOMAIN v

\* Python truthiness of an Optional[str] / Optional[list] argument.
Truthy(v) ==
    /\ ~IsNone(v)
    /\ ("str" \in DOMAIN v => v.str # <<>>)
    /\ ("list" \in DOMAIN v => v.list # <<>>)

EmptyDict == [k \in {} |-> None]

\* dict.get(k, default): the default is used only when the key is missing.
Get(d, k, default) == IF k \in DOMAIN d THEN d[k] ELSE default

\* ------------------------------------------------------------------ strings
NameChars == {"a", "A"}

\* str.lower(), one character at a time.
LowerChar(c) == IF c = "A" THEN "a" ELSE c
Lower(s) == [i \in 1..Len(s) |-> LowerChar(s[i])]

\* "-" in s
HasDash(s) == \E i \in 1..Len(s) : s[i] = "-"

\* status / workflow-state names: one or two characters, so that names differ
\* by case only ("a", "A"), by a proper prefix ("a", "aA") or not at all
Names == {<<c>> : c \in NameChars} \cup {<<c, d>> : c, d \in NameChars}

\* --------------------------------------------------------- argument domains
OptText(vals) == {None} \cup {Str(v) : v \in vals}
Titles == {<<>>, <<"t">>}
Descriptions == {<<>>, <<"d">>}
Priorities == {0, 2}
OptPriority == {None} \cup {Num(p) : p \in Priorities}
\* status: omitted, empty, or a name
OptStatus == {None, Str(<<>>)} \cup {Str(n) : n \in Names}
TeamId == <<"T", "-", "1">>
TeamKey == <<"O", "P", "S">>
IssueId == <<"I", "-", "1">>

\* ---------------------------------------------------------- remote payloads
StateIds == <<"s1", "s2", "s3", "s4">>
StateId(i) == <<StateIds[i]>>
\* the workflow states of a team, in the order the remote returns them
StateLists ==
    UNION {{[i \in 1..n |-> [id |-> StateId(i), name |-> f[i]]] : f \in [1..n -> Names]}
           : n \in 0..MaxStates}

RemoteIssues ==
    {[id |-> <<"uuid-1">>, identifier |-> <<"T-1">>, title |-> <<"t">>,
      description |-> None, priority |-> Num(2), state |-> st,
      team |-> [id |-> TeamId, key |-> TeamKey],
      url |-> <<"u">>, createdAt |-> <<"c">>, updatedAt |-> <<"m">>]
     : st \in {None, [id |-> <<"s1">>, name |-> <<"a">>]}}

HttpError == [http |-> "error"]
Ok(body) == [http |-> "ok", body |-> body]
IsOk(resp) == resp.http = "ok"

\* --------------------------------------------------------------- exceptions
Raise(type, message) == [kind |-> "raise", type |-> type, message |-> message]
Return(value) == [kind |-> "return", value |-> value]
NoOutcome == [kind |-> "none"]

\* response.raise_for_status() on a non-success status
TransportError == Raise("HTTPStatusError", <<"http status">>)

\* _execute_query raising on an errors field as well
ExecuteQueryChecksErrors(resp) ==
    IF resp.http # "ok" THEN TransportError
    ELSE IF "errors" \in DOMAIN resp.body THEN Raise("Exception", <<"GraphQL errors">>)
    ELSE Return(resp.body)

\* _execute_query on the response to its one POST: raise_for_status(), then
\* return response.json()
ExecuteQuery(resp) ==
    IF resp.http # "ok" THEN TransportError ELSE Return(resp.body)
\* None.get(...): a key present with a null value defeats .get(k, {})
AttributeError == Raise("AttributeError", <<"'NoneType' object has no attribute 'get'">>)

\* --------------------------------------------------------------- dispatcher
\* the two packages that serve the tools; only mcp_linear has the resources
Servers == {"mcp_linear", "linear_mcp"}

Tools ==
    {"linear_create_issue", "linear_update_issue", "linear_search_issues",
     "linear_get_user_issues", "linear_add_comment"}

Resources ==
    {"get_issue", "get_team_issues", "get_user_assigned", "get_organization",
     "get_viewer"}

\* the tools that test `if not issue` / `if not comment` on the result
MutationTools == {"linear_create_issue", "linear_update_issue", "linear_add_comment"}

\* LinearMCPClient(api_key): the credential and the session's headers
ApiKeys == {<<"lin_api_key">>}
ApiUrl == <<"https://api.linear.app/graphql">>
NewClient(api_key) ==
    [api_key |-> api_key, url |-> ApiUrl,
     headers |-> [Authorization |-> api_key, ContentType |-> <<"application/json">>]]

\* what a handler hands to the host: a plain string, the string json.dumps
\* makes of an object, or (resources) a dict; an exception the handler let
\* through would be Propagated
Text(s) == [text |-> s]
Json(obj) == [json |-> obj]
Propagated(e) == [propagated |-> e]
NoReply == [pending |-> TRUE]

\* the context each handler's except clause names
Context ==
    [linear_create_issue |-> "Failed to create issue",
     linear_update_issue |-> "Failed to update issue",
     linear_search_issues |-> "Failed to search issues",
     linear_get_user_issues |-> "Failed to get user issues",
     linear_add_comment |-> "Failed to add comment",
     get_issue |-> "Failed to get issue",
     get_team_issues |-> "Failed to get team issues",
     get_user_assigned |-> "Failed to get user issues",
     get_organization |-> "Failed to get organization",
     get_viewer |-> "Failed to get viewer"]

\* if not linear_client: return ...
NotInitialized(h) ==
    IF h \in Tools THEN Text(<<"Error: ", "Linear client not initialized">>)
    ELSE [error |-> <<"Linear client not initialized">>]

\* {value} inside an f-string
Format(v) ==
    IF IsNone(v) THEN <<"None">>
    ELSE IF "str" \in DOMAIN v THEN v.str
    ELSE <<ToString(v.int)>>

\* {value or 'default'} inside an f-string
FormatOr(v, default) ==
    IF IsNone(v) \/ v = Str(<<>>) \/ v = Num(0) THEN <<default>> ELSE Format(v)

IssueLine(issue, unknown) ==
    <<"- ">> \o Format(issue.identifier) \o <<": ">> \o Format(issue.title)
    \o <<"\n  Priority: ">> \o FormatOr(issue.priority, "None")
    \o <<", Status: ">> \o FormatOr(issue.state, unknown)
    \o <<"\n  ">> \o Format(issue.url)

RECURSIVE IssueList(_, _, _)
\* "\n".join([... for issue in issues])
IssueList(issues, unknown, i) ==
    IF i > Len(issues) THEN <<>>
    ELSE IssueLine(issues[i], unknown)
         \o (IF i < Len(issues) THEN <<"\n">> ELSE <<>>)
         \o IssueList(issues, unknown, i + 1)

Found(issues, what) == <<"Found ", ToString(Len(issues)), what>>

\* the object a tool encodes on success
SuccessBody(s, h, v) ==
    CASE h = "linear_create_issue" ->
           [message |-> IF s = "mcp_linear"
                        THEN <<"Created issue ">> \o Format(v.identifier)
                             \o <<": ">> \o Format(v.title)
                        ELSE <<"Created new issue">>,
            issue |-> v]
      [] h = "linear_update_issue" ->
           [message |-> IF s = "mcp_linear"
                        THEN <<"Updated issue ">> \o Format(v.identifier)
                        ELSE <<"Updated issue">>,
            issue |-> v]
      [] h = "linear_search_issues" ->
           IF s = "mcp_linear"
           THEN [message |-> Found(v, " matching issues"), issues |-> v,
                 text |-> Found(v, " issues:\n") \o IssueList(v, "None", 1)]
           ELSE [message |-> Found(v, " matching issues"), issues |-> v]
      [] h = "linear_get_user_issues" ->
           IF s = "mcp_linear"
           THEN [message |-> Found(v, " assigned issues"), issues |-> v,
                 text |-> Found(v, " issues:\n") \o IssueList(v, "Unknown", 1)]
           ELSE [message |-> Found(v, " assigned issues"), issues |-> v]
      [] h = "linear_add_comment" ->
           [message |-> IF s = "mcp_linear"
                        THEN <<"Added comment to issue ">>
                             \o Format(Get(Get(v, "issue", EmptyDict),
                                           "identifier", None))
                        ELSE <<"Added comment">>,
            comment |-> v]

\* a tool handler that catches ValueError only and lets the rest through
ToolReplyCatchesValueError(s, h, o) ==
    IF o.kind = "raise"
    THEN IF o.type = "ValueError"
         THEN Text(<<"Error: ", Context[h], " - ">> \o o.message)
         ELSE Propagated(o)
    ELSE IF h \in MutationTools /\ IsNone(o.value) THEN Text(<<"Error: ", Context[h]>>)
    ELSE Json(SuccessBody(s, h, o.value))

\* a tool handler that encodes a None result like any other
ToolReplyEncodesNone(s, h, o) ==
    IF o.kind = "raise" THEN Text(<<"Error: ", Context[h], " - ">> \o o.message)
    ELSE Json([message |-> <<"Done">>] @@ (IF h = "linear_add_comment"
                                            THEN [comment |-> o.value]
                                            ELSE IF h \in MutationTools
                                            THEN [issue |-> o.value]
                                            ELSE [issues |-> o.value]))

\* a tool handler, from the client's return or exception to its return value
ToolReply(s, h, o) ==
    IF o.kind = "raise" THEN Text(<<"Error: ", Context[h], " - ">> \o o.message)
    ELSE IF h \in MutationTools /\ IsNone(o.value) THEN Text(<<"Error: ", Context[h]>>)
    ELSE Json(SuccessBody(s, h, o.value))

\* a resource handler, likewise
ResourceReply(h, o) ==
    IF o.kind = "raise" THEN [error |-> <<Context[h], ": ">> \o o.message]
    ELSE [mimeType |-> <<"application/json">>, data |-> o.value]

HandlerReply(s, h, o) ==
    IF h \in Tools THEN ToolReply(s, h, o) ELSE ResourceReply(h, o)

\* server, linear_client: the package that serves and its module-level client
\* handler, params, reply: the tool or resource invoked, its parameters, and
\*     what it returned to the host
\* pc, op, args: the client operation in progress and where it is
\* sent, received: the requests posted and the responses read, in order
\* states, state_id, team_id: locals of the operation
\* outcome: what the client operation returned or raised
\* suspended: the frame of a second invocation while it is not running
VARIABLES server, linear_client, handler, params, reply,
          pc, op, args, sent, received, states, state_id, team_id, outcome,
          suspended

vars == <<server, linear_client, handler, params, reply,
          pc, op, args, sent, received, states, state_id, team_id, outcome,
          suspended>>

\* the frame of an invocation that has not started
IdleFrame ==
    [handler |-> "none", params |-> EmptyDict, reply |-> NoReply, pc |-> "idle",
     op |-> "none", args |-> EmptyDict, sent |-> <<>>, received |-> <<>>,
     states |-> <<>>, state_id |-> None, team_id |-> None, outcome |-> NoOutcome]

\* _execute_query: one POST of {query, variables or {}}
Request(name, variables) ==
    [query |-> name,
     variables |-> IF IsNone(variables) THEN EmptyDict ELSE variables]

Init ==
    /\ server \in Servers
    /\ linear_client = None
    /\ handler = "none"
    /\ params = EmptyDict
    /\ reply = NoReply
    /\ pc = "idle"
    /\ op = "none"
    /\ args = EmptyDict
    /\ sent = <<>>
    /\ received = <<>>
    /\ states = <<>>
    /\ state_id = None
    /\ team_id = None
    /\ outcome = NoOutcome
    /\ suspended = IdleFrame

\* initialize_client, run once by main() before the server starts
InitializeClient ==
    /\ pc = "idle"
    /\ linear_client = None
    /\ \E k \in ApiKeys : linear_client' = NewClient(k)
    /\ UNCHANGED <<server, handler, params, reply, pc, op, args, sent, received,
                   states, state_id, team_id, outcome, suspended>>

\* the host invokes handler h with parameters p; with a client the handler
\* calls operation o with arguments a, which starts at step first
Invoke(h, p, o, a, first) ==
    /\ handler' = h
    /\ params' = p
    /\ IF IsNone(linear_client)
       THEN /\ reply' = NotInitialized(h)
            /\ pc' = "done"
            /\ UNCHANGED <<op, args>>
       ELSE /\ reply' = NoReply
            /\ pc' = first
            /\ op' = o
            /\ args' = a
    /\ UNCHANGED <<server, linear_client, sent, received, states, state_id, outcome,
                   suspended>>

\* --------------------------------------------------- status name -> state id
\* FirstMatch comparing the names as written, without lower()
RECURSIVE FirstMatchCaseSensitive(_, _, _)
FirstMatchCaseSensitive(nodes, status, i) ==
    IF i > Len(nodes) THEN None
    ELSE IF nodes[i].name = status THEN Str(nodes[i].id)
    ELSE FirstMatchCaseSensitive(nodes, status, i + 1)

RECURSIVE FirstMatch(_, _, _)
\* for state in states: if state["name"].lower() == status.lower(): ...; break
FirstMatch(nodes, status, i) ==
    IF i > Len(nodes) THEN None
    ELSE IF Lower(nodes[i].name) = Lower(status) THEN Str(nodes[i].id)
    ELSE FirstMatch(nodes, status, i + 1)

\* ResolveState falling back to the team's first state when no name matches
ResolveStateOrFirst(nodes, status) ==
    IF IsNone(FirstMatch(nodes, status, 1)) /\ nodes # <<>>
    THEN Str(nodes[1].id)
    ELSE FirstMatch(nodes, status, 1)

ResolveState(nodes, status) == FirstMatch(nodes, status, 1)

\* responses to the States query, by the shape the .get() chain sees
StatesResponses ==
    {HttpError, Ok(EmptyDict), Ok([data |-> None]), Ok([data |-> [team |-> None]])}
    \cup {Ok([data |-> [team |-> [states |-> [nodes |-> l]]]]) : l \in StateLists}

\* state_result.get("data", {}).get("team", {}).get("states", {}).get("nodes", [])
\* yields the node list, or fails on a null data / team
StatesNodes(body) ==
    LET data == Get(body, "data", EmptyDict) IN
    IF IsNone(data) THEN AttributeError
    ELSE LET team == Get(data, "team", EmptyDict) IN
         IF IsNone(team) THEN AttributeError
         ELSE Return(Get(Get(team, "states", EmptyDict), "nodes", <<>>))

\* StatesLookup taking a failed request for a team without states
StatesLookupSwallowsFailure(resp) ==
    IF ExecuteQuery(resp).kind = "raise" THEN Return(<<>>)
    ELSE StatesNodes(ExecuteQuery(resp).value)

StatesLookup(resp) ==
    IF ExecuteQuery(resp).kind = "raise" THEN ExecuteQuery(resp)
    ELSE StatesNodes(ExecuteQuery(resp).value)

\* ---------------------------------------------------------------- mutations
\* AfterMutation sending the mutation again when it yielded no entity
AfterMutationRetriesFailure(here, o) == IF o = Return(None) THEN here ELSE "done"

\* a mutating operation returns (or raises) on the response to its mutation
AfterMutation(here, o) == "done"

MutationResponses(field, entity, payloads) ==
    {HttpError, Ok(EmptyDict), Ok([data |-> None]),
     Ok([data |-> (field :> None)]),
     Ok([data |-> (field :> [success |-> FALSE])])}
    \cup {Ok([data |-> (field :> ((entity :> p) @@ [success |-> TRUE]))]) : p \in payloads}

\* result.get("data", {}).get(field, {})
MutationResult(body, field) ==
    LET data == Get(body, "data", EmptyDict) IN
    IF IsNone(data) THEN AttributeError
    ELSE LET r == Get(data, field, EmptyDict) IN
         IF IsNone(r) THEN AttributeError
         ELSE Return(r)

\* issue_result.get("success") is truthy
Succeeded(r) == Get(r, "success", FALSE) = TRUE

\* d[k] = v when the guard holds, d otherwise
PutIf(guard, d, k, v) == IF guard THEN (k :> v) @@ d ELSE d

\* ------------------------------------------------------------- create_issue
CreateArgs ==
    [title : {Str(<<"t">>)}, team_id : {Str(TeamId)}, description : OptText(Descriptions),
     priority : OptPriority, status : OptStatus]

\* linear_create_issue passes its parameters on under the same names
CallCreateIssue ==
    /\ pc = "idle"
    /\ \E a \in CreateArgs :
        Invoke("linear_create_issue", a, "create_issue", a,
               IF Truthy(a.status) THEN "create_states" ELSE "create_mutation")
    /\ UNCHANGED team_id

CreateStatesQuery ==
    /\ pc = "create_states"
    /\ sent' = Append(sent, Request("States", [teamId |-> args.team_id]))
    /\ \E resp \in StatesResponses :
        LET nodes == StatesLookup(resp) IN
        /\ received' = Append(received, resp)
        /\ IF nodes.kind = "raise"
           THEN /\ outcome' = nodes
                /\ pc' = "done"
                /\ reply' = HandlerReply(server, handler, outcome')
                /\ UNCHANGED <<states, state_id>>
           ELSE /\ states' = nodes.value
                /\ state_id' = ResolveState(nodes.value, args.status.str)
                /\ pc' = "create_mutation"
                /\ UNCHANGED <<outcome, reply>>
    /\ UNCHANGED <<op, args, team_id, server, linear_client, handler, params,
                   suspended>>

CreateInput(a, sid) ==
    [title |-> a.title, teamId |-> a.team_id, description |-> a.description,
     priority |-> a.priority, stateId |-> sid]

ProjectCreated(issue) ==
    [id |-> Str(issue.id), identifier |-> Str(issue.identifier),
     title |-> Str(issue.title), description |-> issue.description,
     priority |-> issue.priority,
     state |-> IF IsNone(issue.state) THEN None ELSE Str(issue.state.name),
     team |-> Str(issue.team.key), url |-> Str(issue.url),
     created_at |-> Str(issue.createdAt)]

\* CreateOutcome raising on success: false instead of returning None
CreateOutcomeRaisesOnFailure(resp) ==
    IF ExecuteQuery(resp).kind = "raise" THEN ExecuteQuery(resp)
    ELSE LET r == MutationResult(ExecuteQuery(resp).value, "issueCreate") IN
         IF r.kind = "raise" THEN r
         ELSE IF ~Succeeded(r.value) THEN Raise("Exception", <<"Failed to create issue">>)
         ELSE Return(ProjectCreated(r.value.issue))

\* what create_issue returns or raises on the mutation's response
CreateOutcome(resp) ==
    IF ExecuteQuery(resp).kind = "raise" THEN ExecuteQuery(resp)
    ELSE LET r == MutationResult(ExecuteQuery(resp).value, "issueCreate") IN
         IF r.kind = "raise" THEN r
         ELSE IF ~Succeeded(r.value) THEN Return(None)
         ELSE Return(ProjectCreated(r.value.issue))

CreateMutation ==
    /\ pc = "create_mutation"
    /\ sent' = Append(sent, Request("CreateIssue", [input |-> CreateInput(args, state_id)]))
    /\ \E resp \in MutationResponses("issueCreate", "issue", RemoteIssues) :
        /\ received' = Append(received, resp)
        /\ outcome' = CreateOutcome(resp)
    /\ pc' = AfterMutation(pc, outcome')
    /\ reply' = HandlerReply(server, handler, outcome')
    /\ UNCHANGED <<op, args, states, state_id, team_id, server, linear_client, handler, params,
                   suspended>>

\* ------------------------------------------------------------- update_issue
UpdateArgs ==
    [issue_id : {Str(IssueId)}, title : OptText(Titles),
     description : OptText(Descriptions), priority : OptPriority, status : OptStatus]

\* linear_update_issue(id, ...) calls update_issue(issue_id=id, ...)
UpdateParams(a) ==
    [id |-> a.issue_id, title |-> a.title, description |-> a.description,
     priority |-> a.priority, status |-> a.status]

CallUpdateIssue ==
    /\ pc = "idle"
    /\ \E a \in UpdateArgs :
        Invoke("linear_update_issue", UpdateParams(a), "update_issue", a,
               IF Truthy(a.status) THEN "update_issue_team" ELSE "update_mutation")
    /\ UNCHANGED team_id

\* responses to the Issue (team id) query
IssueTeamResponses ==
    {HttpError, Ok(EmptyDict), Ok([data |-> None]), Ok([data |-> [issue |-> None]]),
     Ok([data |-> [issue |-> [team |-> None]]]),
     Ok([data |-> [issue |-> [team |-> [id |-> None]]]]),
     Ok([data |-> [issue |-> [team |-> [id |-> Str(TeamId)]]]])}

\* issue_result.get("data", {}).get("issue", {}).get("team", {}).get("id")
IssueTeamId(body) ==
    LET data == Get(body, "data", EmptyDict) IN
    IF IsNone(data) THEN AttributeError
    ELSE LET issue == Get(data, "issue", EmptyDict) IN
         IF IsNone(issue) THEN AttributeError
         ELSE LET team == Get(issue, "team", EmptyDict) IN
              IF IsNone(team) THEN AttributeError
              ELSE Return(Get(team, "id", None))

\* AfterIssueTeam asking again for the team id when the issue has none
AfterIssueTeamRefetches(t) == IF Truthy(t) THEN "update_states" ELSE "update_issue_team"

\* AfterIssueTeam going to the mutation without resolving the status
AfterIssueTeamSkipsStates(t) == "update_mutation"

\* if team_id: resolve the status among the team's states; else go on to the
\* mutation
AfterIssueTeam(t) == IF Truthy(t) THEN "update_states" ELSE "update_mutation"

IssueTeamLookup(resp) ==
    IF ExecuteQuery(resp).kind = "raise" THEN ExecuteQuery(resp)
    ELSE IssueTeamId(ExecuteQuery(resp).value)

UpdateIssueTeamQuery ==
    /\ pc = "update_issue_team"
    /\ sent' = Append(sent, Request("Issue", [id |-> args.issue_id]))
    /\ \E resp \in IssueTeamResponses :
        LET t == IssueTeamLookup(resp) IN
        /\ received' = Append(received, resp)
        /\ IF t.kind = "raise"
           THEN /\ outcome' = t
                /\ pc' = "done"
                /\ reply' = HandlerReply(server, handler, outcome')
                /\ UNCHANGED team_id
           ELSE /\ team_id' = t.value
                /\ pc' = AfterIssueTeam(t.value)
                /\ UNCHANGED <<outcome, reply>>
    /\ UNCHANGED <<op, args, states, state_id, server, linear_client, handler, params,
                   suspended>>

UpdateStatesQuery ==
    /\ pc = "update_states"
    /\ sent' = Append(sent, Request("States", [teamId |-> team_id]))
    /\ \E resp \in StatesResponses :
        LET nodes == StatesLookup(resp) IN
        /\ received' = Append(received, resp)
        /\ IF nodes.kind = "raise"
           THEN /\ outcome' = nodes
                /\ pc' = "done"
                /\ reply' = HandlerReply(server, handler, outcome')
                /\ UNCHANGED <<states, state_id>>
           ELSE /\ states' = nodes.value
                /\ state_id' = ResolveState(nodes.value, args.status.str)
                /\ pc' = "update_mutation"
                /\ UNCHANGED <<outcome, reply>>
    /\ UNCHANGED <<op, args, team_id, server, linear_client, handler, params,
                   suspended>>

\* UpdateInput testing truthiness instead of "is not None"
UpdateInputTruthy(a, sid) ==
    LET d1 == PutIf(Truthy(a.title), EmptyDict, "title", a.title)
        d2 == PutIf(Truthy(a.description), d1, "description", a.description)
        d3 == PutIf(~IsNone(a.priority), d2, "priority", a.priority)
    IN  PutIf(~IsNone(sid), d3, "stateId", sid)

\* UpdateInput carrying stateId whether or not a state was resolved
UpdateInputAlwaysSetsState(a, sid) ==
    LET d1 == PutIf(~IsNone(a.title), EmptyDict, "title", a.title)
        d2 == PutIf(~IsNone(a.description), d1, "description", a.description)
        d3 == PutIf(~IsNone(a.priority), d2, "priority", a.priority)
    IN  [k \in DOMAIN d3 \cup {"stateId"} |-> IF k = "stateId" THEN sid ELSE d3[k]]

UpdateInput(a, sid) ==
    LET d1 == PutIf(~IsNone(a.title), EmptyDict, "title", a.title)
        d2 == PutIf(~IsNone(a.description), d1, "description", a.description)
        d3 == PutIf(~IsNone(a.priority), d2, "priority", a.priority)
    IN  PutIf(~IsNone(sid), d3, "stateId", sid)

ProjectUpdated(issue) ==
    [id |-> Str(issue.id), identifier |-> Str(issue.identifier),
     title |-> Str(issue.title), description |-> issue.description,
     priority |-> issue.priority,
     state |-> IF IsNone(issue.state) THEN None ELSE Str(issue.state.name),
     team |-> Str(issue.team.key), url |-> Str(issue.url),
     updated_at |-> Str(issue.updatedAt)]

\* what update_issue returns or raises on the mutation's response
UpdateOutcome(resp) ==
    IF ExecuteQuery(resp).kind = "raise" THEN ExecuteQuery(resp)
    ELSE LET r == MutationResult(ExecuteQuery(resp).value, "issueUpdate") IN
         IF r.kind = "raise" THEN r
         ELSE IF ~Succeeded(r.value) THEN Return(None)
         ELSE Return(ProjectUpdated(r.value.issue))

UpdateMutation ==
    /\ pc = "update_mutation"
    /\ sent' = Append(sent, Request("UpdateIssue",
                                    [id |-> args.issue_id,
                                     input |-> UpdateInput(args, state_id)]))
    /\ \E resp \in MutationResponses("issueUpdate", "issue", RemoteIssues) :
        /\ received' = Append(received, resp)
        /\ outcome' = UpdateOutcome(resp)
    /\ pc' = AfterMutation(pc, outcome')
    /\ reply' = HandlerReply(server, handler, outcome')
    /\ UNCHANGED <<op, args, states, state_id, team_id, server, linear_client, handler, params,
                   suspended>>

\* ------------------------------------------------------------ search_issues
Queries == {<<>>, <<"q">>}
Assignees == {<<>>, <<"u1">>}
OptTeam == {None, Str(<<>>), Str(TeamKey), Str(TeamId)}
OptLabels == {None, List(<<>>), List(<<<<"bug">>>>), List(<<<<"bug">>, <<"urgent">>>>)}
Limits == {1, 10}
\* the status filter is passed through, so one-character names are enough
SearchStatuses == {None, Str(<<>>)} \cup {Str(<<c>>) : c \in NameChars}
\* the id the remote holds for the team whose key is TeamKey
ResolvedTeamId == <<"uuid", "-", "ops">>

SearchArgs ==
    [query : OptText(Queries), team_id : OptTeam, status : SearchStatuses,
     assignee_id : OptText(Assignees), labels : OptLabels, priority : OptPriority,
     limit : Limits]

\* if team_id and "-" not in team_id
LooksLikeTeamKey(t) == Truthy(t) /\ ~HasDash(t.str)

\* the parameters of linear_search_issues that it does not pass on; the
\* older package has neither
Estimates == {None, Num(3)}
IncludeArchived == {FALSE, TRUE}

SearchParams(s, a, estimate, include_archived) ==
    IF s = "mcp_linear"
    THEN [query |-> a.query, team_id |-> a.team_id, status |-> a.status,
          assignee_id |-> a.assignee_id, labels |-> a.labels,
          priority |-> a.priority, estimate |-> estimate,
          include_archived |-> include_archived, limit |-> a.limit]
    ELSE a

\* SearchCall passing the estimate on as the priority when none is given
SearchCallPassesEstimate(p) ==
    [query |-> p.query, team_id |-> p.team_id, status |-> p.status,
     assignee_id |-> p.assignee_id, labels |-> p.labels,
     priority |-> IF IsNone(p.priority) THEN Get(p, "estimate", None) ELSE p.priority,
     limit |-> p.limit]

\* linear_client.search_issues(query=query, ..., priority=priority, limit=limit):
\* the arguments the handler calls the client with
SearchCall(p) ==
    [query |-> p.query, team_id |-> p.team_id, status |-> p.status,
     assignee_id |-> p.assignee_id, labels |-> p.labels, priority |-> p.priority,
     limit |-> p.limit]

\* the handler's entry for the parameters p
InvokeSearch(p) ==
    /\ Invoke("linear_search_issues", p, "search_issues", SearchCall(p),
              IF LooksLikeTeamKey(SearchCall(p).team_id) THEN "search_team"
              ELSE "search_query")
    /\ team_id' = IF IsNone(linear_client) THEN team_id ELSE SearchCall(p).team_id

CallSearchIssues ==
    /\ pc = "idle"
    /\ \E a \in SearchArgs, estimate \in Estimates, include_archived \in IncludeArchived :
        InvokeSearch(SearchParams(server, a, estimate, include_archived))

\* responses to the Team (by key) query
TeamByKeyResponses ==
    {HttpError, Ok(EmptyDict), Ok([data |-> None]), Ok([data |-> [team |-> None]]),
     Ok([data |-> [team |-> [id |-> Str(ResolvedTeamId)]]])}

\* ResolveTeam never substituting the id it looked up
ResolveTeamKeepsKey(body, tid) ==
    LET data == Get(body, "data", EmptyDict) IN
    IF IsNone(data) THEN AttributeError ELSE Return(tid)

\* ResolveTeam refusing a key the remote knows no team for
ResolveTeamRaisesUnknown(body, tid) ==
    LET data == Get(body, "data", EmptyDict) IN
    IF IsNone(data) THEN AttributeError
    ELSE LET team_data == Get(data, "team", EmptyDict) IN
         IF IsNone(team_data) \/ team_data = EmptyDict
         THEN Raise("ValueError", <<"Team ">> \o tid.str \o <<" not found">>)
         ELSE Return(Get(team_data, "id", None))

\* team_result.get("data", {}).get("team", {}); if team_data: team_id = team_data.get("id")
ResolveTeam(body, tid) ==
    LET data == Get(body, "data", EmptyDict) IN
    IF IsNone(data) THEN AttributeError
    ELSE LET team_data == Get(data, "team", EmptyDict) IN
         IF IsNone(team_data) \/ team_data = EmptyDict THEN Return(tid)
         ELSE Return(Get(team_data, "id", None))

TeamLookup(resp, tid) ==
    IF ExecuteQuery(resp).kind = "raise" THEN ExecuteQuery(resp)
    ELSE ResolveTeam(ExecuteQuery(resp).value, tid)

SearchTeamQuery ==
    /\ pc = "search_team"
    /\ sent' = Append(sent, Request("Team", [key |-> team_id]))
    /\ \E resp \in TeamByKeyResponses :
        LET t == TeamLookup(resp, team_id) IN
        /\ received' = Append(received, resp)
        /\ IF t.kind = "raise"
           THEN /\ outcome' = t
                /\ pc' = "done"
                /\ reply' = HandlerReply(server, handler, outcome')
                /\ UNCHANGED team_id
           ELSE /\ team_id' = t.value
                /\ pc' = "search_query"
                /\ UNCHANGED <<outcome, reply>>
    /\ UNCHANGED <<op, args, states, state_id, server, linear_client, handler, params,
                   suspended>>

\* SearchFilter lower-casing the status name
SearchFilterFoldsStatus(a, tid) ==
    LET d1 == PutIf(Truthy(a.query), EmptyDict, "or",
                    <<[title |-> [contains |-> a.query]],
                      [description |-> [contains |-> a.query]]>>)
        d2 == PutIf(Truthy(tid), d1, "team", [id |-> [eq |-> tid]])
        d3 == PutIf(Truthy(a.status), d2, "state",
                    [name |-> [eq |-> Str(Lower(a.status.str))]])
        d4 == PutIf(Truthy(a.assignee_id), d3, "assignee", [id |-> [eq |-> a.assignee_id]])
        d5 == PutIf(Truthy(a.labels), d4, "labels", [some |-> [name |-> [in |-> a.labels]]])
    IN  PutIf(~IsNone(a.priority), d5, "priority", [eq |-> a.priority])

\* SearchFilter testing the priority for truthiness like the other arguments
SearchFilterTruthyPriority(a, tid) ==
    LET d1 == PutIf(Truthy(a.query), EmptyDict, "or",
                    <<[title |-> [contains |-> a.query]],
                      [description |-> [contains |-> a.query]]>>)
        d2 == PutIf(Truthy(tid), d1, "team", [id |-> [eq |-> tid]])
        d3 == PutIf(Truthy(a.status), d2, "state", [name |-> [eq |-> a.status]])
        d4 == PutIf(Truthy(a.assignee_id), d3, "assignee", [id |-> [eq |-> a.assignee_id]])
        d5 == PutIf(Truthy(a.labels), d4, "labels", [some |-> [name |-> [in |-> a.labels]]])
    IN  PutIf(~IsNone(a.priority) /\ a.priority # Num(0), d5, "priority",
              [eq |-> a.priority])

SearchFilter(a, tid) ==
    LET d1 == PutIf(Truthy(a.query), EmptyDict, "or",
                    <<[title |-> [contains |-> a.query]],
                      [description |-> [contains |-> a.query]]>>)
        d2 == PutIf(Truthy(tid), d1, "team", [id |-> [eq |-> tid]])
        d3 == PutIf(Truthy(a.status), d2, "state", [name |-> [eq |-> a.status]])
        d4 == PutIf(Truthy(a.assignee_id), d3, "assignee", [id |-> [eq |-> a.assignee_id]])
        d5 == PutIf(Truthy(a.labels), d4, "labels", [some |-> [name |-> [in |-> a.labels]]])
    IN  PutIf(~IsNone(a.priority), d5, "priority", [eq |-> a.priority])

\* SearchVariables leaving an empty filter out
SearchVariablesDropsEmptyFilter(a, tid) ==
    IF SearchFilter(a, tid) = EmptyDict
    THEN [first |-> a.limit]
    ELSE [first |-> a.limit, filter |-> SearchFilter(a, tid)]

SearchVariables(a, tid) == [first |-> a.limit, filter |-> SearchFilter(a, tid)]

FoundIssues ==
    {[id |-> <<"uuid-1">>, identifier |-> <<"T-1">>, title |-> <<"t">>,
      description |-> None, priority |-> Num(2), state |-> [name |-> <<"a">>],
      assignee |-> x.assignee, team |-> [id |-> TeamId, key |-> TeamKey],
      labels |-> x.labels, url |-> <<"u">>, createdAt |-> <<"c">>]
     : x \in {[assignee |-> None, labels |-> None],
              [assignee |-> [id |-> <<"u1">>, name |-> <<"n">>],
               labels |-> [nodes |-> <<[name |-> <<"bug">>]>>]]}}

FoundLists == {<<>>} \cup {<<i>> : i \in FoundIssues}

RemoteMessages == {<<"m1">>, <<"m2">>}
ErrorLists ==
    {<<>>, <<EmptyDict>>} \cup {<<[message |-> m]>> : m \in RemoteMessages}
    \cup {<<[message |-> p[1]], [message |-> p[2]]>>
          : p \in {q \in RemoteMessages \X RemoteMessages : q[1] # q[2]}}

\* responses to the SearchIssues query
SearchResponses ==
    {HttpError, Ok(EmptyDict), Ok([data |-> [issues |-> None]])}
    \cup {Ok([data |-> None, errors |-> e]) : e \in ErrorLists}
    \cup {Ok([data |-> [issues |-> [nodes |-> l]]]) : l \in FoundLists}

\* FirstErrorMessage reading the last reported error
LastErrorMessage(body) ==
    LET errors == Get(body, "errors", <<EmptyDict>>) IN
    IF errors = <<>> THEN Raise("IndexError", <<"list index out of range">>)
    ELSE Return(Get(errors[Len(errors)], "message", <<"Unknown error">>))

\* result.get("errors", [{}])[0].get("message", "Unknown error")
FirstErrorMessage(body) ==
    LET errors == Get(body, "errors", <<EmptyDict>>) IN
    IF errors = <<>> THEN Raise("IndexError", <<"list index out of range">>)
    ELSE Return(Get(errors[1], "message", <<"Unknown error">>))

ProjectFound(issue) ==
    [id |-> Str(issue.id), identifier |-> Str(issue.identifier),
     title |-> Str(issue.title), description |-> issue.description,
     priority |-> issue.priority, state |-> Str(issue.state.name),
     assignee |-> IF IsNone(issue.assignee) THEN None
                  ELSE [id |-> Str(issue.assignee.id), name |-> Str(issue.assignee.name)],
     team |-> [id |-> Str(issue.team.id), key |-> Str(issue.team.key)],
     labels |-> IF IsNone(issue.labels) THEN <<>>
                ELSE [i \in 1..Len(issue.labels.nodes) |-> Str(issue.labels.nodes[i].name)],
     url |-> Str(issue.url), created_at |-> Str(issue.createdAt)]

\* the body of the try block: what it returns or raises
SearchTry(resp) ==
    IF ExecuteQuery(resp).kind = "raise" THEN ExecuteQuery(resp)
    ELSE LET data == Get(ExecuteQuery(resp).value, "data", EmptyDict) IN
         IF IsNone(data) \/ data = EmptyDict
         THEN LET error == FirstErrorMessage(ExecuteQuery(resp).value) IN
              IF error.kind = "raise" THEN error
              ELSE Raise("Exception", error.value)
         ELSE LET issues == Get(data, "issues", EmptyDict) IN
              IF IsNone(issues) THEN AttributeError
              ELSE LET nodes == Get(issues, "nodes", <<>>) IN
                   Return([i \in 1..Len(nodes) |-> ProjectFound(nodes[i])])

\* except Exception as e: raise Exception(f"Search failed: {str(e)}")
SearchOutcome(r) ==
    IF r.kind = "raise" THEN Raise("Exception", <<"Search failed: ">> \o r.message)
    ELSE r

SearchQuery ==
    /\ pc = "search_query"
    /\ sent' = Append(sent, Request("SearchIssues", SearchVariables(args, team_id)))
    /\ \E resp \in SearchResponses :
        /\ received' = Append(received, resp)
        /\ outcome' = SearchOutcome(SearchTry(resp))
    /\ pc' = "done"
    /\ reply' = HandlerReply(server, handler, outcome')
    /\ UNCHANGED <<op, args, states, state_id, team_id, server, linear_client, handler, params,
                   suspended>>

\* ---------------------------------------------------------------- get_issue
OtherIssueId == <<"I", "-", "2">>
IssueIds == {IssueId, OtherIssueId}

\* what the remote holds for an issue read by id or listed for a team;
\* an unassigned issue has a null assignee
StoredIssues ==
    {[id |-> <<"uuid-1">>, identifier |-> <<"T-1">>, title |-> <<"t">>,
      description |-> None, priority |-> Num(2), state |-> [name |-> <<"a">>],
      assignee |-> who, team |-> [name |-> <<"Ops">>], url |-> <<"u">>]
     : who \in {None, [name |-> <<"n">>]}}

CallGetIssue ==
    /\ pc = "idle"
    /\ server = "mcp_linear"
    /\ \E i \in IssueIds :
        Invoke("get_issue", [issue_id |-> Str(i)], "get_issue", [issue_id |-> Str(i)],
               "get_issue_query")
    /\ UNCHANGED team_id

GetIssueResponses ==
    {HttpError, Ok(EmptyDict), Ok([data |-> None]), Ok([data |-> EmptyDict]),
     Ok([data |-> [issue |-> None]])}
    \cup {Ok([data |-> [issue |-> i]]) : i \in StoredIssues}
    \cup {Ok([data |-> [issue |-> i], errors |-> <<[message |-> <<"partial">>]>>])
          : i \in StoredIssues}

\* issue.get(k, {}).get("name"): fails when the key holds null
NameOf(issue, k) ==
    LET v == Get(issue, k, EmptyDict) IN
    IF IsNone(v) THEN AttributeError
    ELSE Return(IF "name" \in DOMAIN v THEN Str(v.name) ELSE None)

NotFound(what, id) == Raise("ValueError", <<what, " ">> \o id \o <<" not found">>)

GetIssueResult(body, issue_id) ==
    LET data == Get(body, "data", EmptyDict) IN
    IF IsNone(data) THEN AttributeError
    ELSE LET issue == Get(data, "issue", EmptyDict) IN
         IF IsNone(issue) \/ issue = EmptyDict THEN NotFound("Issue", issue_id.str)
         ELSE LET status == NameOf(issue, "state")
                  assignee == NameOf(issue, "assignee")
                  team == NameOf(issue, "team")
              IN  IF status.kind = "raise" THEN status
                  ELSE IF assignee.kind = "raise" THEN assignee
                  ELSE IF team.kind = "raise" THEN team
                  ELSE Return([id |-> Str(issue.id), identifier |-> Str(issue.identifier),
                               title |-> Str(issue.title),
                               description |-> issue.description,
                               priority |-> Get(issue, "priority", None),
                               status |-> status.value, assignee |-> assignee.value,
                               team |-> team.value, url |-> Str(issue.url)])

GetIssueOutcome(resp, issue_id) ==
    IF ExecuteQuery(resp).kind = "raise" THEN ExecuteQuery(resp)
    ELSE GetIssueResult(ExecuteQuery(resp).value, issue_id)

GetIssueQuery ==
    /\ pc = "get_issue_query"
    /\ sent' = Append(sent, Request("GetIssue", [id |-> args.issue_id]))
    /\ \E resp \in GetIssueResponses :
        /\ received' = Append(received, resp)
        /\ outcome' = GetIssueOutcome(resp, args.issue_id)
    /\ pc' = "done"
    /\ reply' = HandlerReply(server, handler, outcome')
    /\ UNCHANGED <<op, args, states, state_id, team_id, server, linear_client, handler, params,
                   suspended>>

\* ---------------------------------------------------------- get_team_issues
OtherTeamId == <<"T", "-", "2">>
TeamIds == {TeamId, OtherTeamId}

CallGetTeamIssues ==
    /\ pc = "idle"
    /\ server = "mcp_linear"
    /\ \E t \in TeamIds :
        Invoke("get_team_issues", [team_id |-> Str(t)], "get_team_issues",
               [team_id |-> Str(t)], "get_team_issues_query")
    /\ UNCHANGED team_id

StoredLists == {<<>>} \cup {<<i>> : i \in StoredIssues}

GetTeamIssuesResponses ==
    {HttpError, Ok(EmptyDict), Ok([data |-> None]), Ok([data |-> EmptyDict]),
     Ok([data |-> [team |-> None]]), Ok([data |-> [team |-> EmptyDict]])}
    \cup {Ok([data |-> [team |-> [issues |-> [nodes |-> l]]]]) : l \in StoredLists}

RECURSIVE ProjectTeamIssues(_, _, _)
ProjectTeamIssues(nodes, i, acc) ==
    IF i > Len(nodes) THEN Return(acc)
    ELSE LET issue == nodes[i]
             status == NameOf(issue, "state")
             assignee == NameOf(issue, "assignee")
         IN  IF status.kind = "raise" THEN status
             ELSE IF assignee.kind = "raise" THEN assignee
             ELSE ProjectTeamIssues(nodes, i + 1,
                    Append(acc, [id |-> Str(issue.id),
                                 identifier |-> Str(issue.identifier),
                                 title |-> Str(issue.title),
                                 description |-> Get(issue, "description", None),
                                 priority |-> Get(issue, "priority", None),
                                 status |-> status.value, assignee |-> assignee.value,
                                 url |-> Str(issue.url)]))

GetTeamIssuesResult(body, tid) ==
    LET data == Get(body, "data", EmptyDict) IN
    IF IsNone(data) THEN AttributeError
    ELSE LET team == Get(data, "team", None) IN
         IF IsNone(team) \/ team = EmptyDict THEN NotFound("Team", tid.str)
         ELSE ProjectTeamIssues(Get(Get(team, "issues", EmptyDict), "nodes", <<>>),
                                1, <<>>)

GetTeamIssuesOutcome(resp, tid) ==
    IF ExecuteQuery(resp).kind = "raise" THEN ExecuteQuery(resp)
    ELSE GetTeamIssuesResult(ExecuteQuery(resp).value, tid)

GetTeamIssuesQuery ==
    /\ pc = "get_team_issues_query"
    /\ sent' = Append(sent, Request("GetTeamIssues", [teamId |-> args.team_id]))
    /\ \E resp \in GetTeamIssuesResponses :
        /\ received' = Append(received, resp)
        /\ outcome' = GetTeamIssuesOutcome(resp, args.team_id)
    /\ pc' = "done"
    /\ reply' = HandlerReply(server, handler, outcome')
    /\ UNCHANGED <<op, args, states, state_id, team_id, server, linear_client, handler, params,
                   suspended>>

\* -------------------------------------------------------------- add_comment
Bodies == {<<"b">>}
UserNames == {<<>>, <<"Bot">>}
IconUrls == {<<>>, <<"icon">>}

CommentArgs ==
    [issue_id : {Str(IssueId)}, body : {Str(b) : b \in Bodies},
     create_as_user : OptText(UserNames), display_icon_url : OptText(IconUrls)]

CallAddComment ==
    /\ pc = "idle"
    /\ \E a \in CommentArgs :
        Invoke("linear_add_comment", a, "add_comment", a, "comment_mutation")
    /\ UNCHANGED team_id

\* CommentInput sending the avatar only together with an override name
CommentInputCouplesIcon(a) ==
    LET d0 == [issueId |-> a.issue_id, body |-> a.body]
        d1 == PutIf(Truthy(a.create_as_user), d0, "createAsUser", a.create_as_user)
    IN  PutIf(Truthy(a.create_as_user) /\ Truthy(a.display_icon_url), d1,
              "displayIconUrl", a.display_icon_url)

CommentInput(a) ==
    LET d0 == [issueId |-> a.issue_id, body |-> a.body]
        d1 == PutIf(Truthy(a.create_as_user), d0, "createAsUser", a.create_as_user)
    IN  PutIf(Truthy(a.display_icon_url), d1, "displayIconUrl", a.display_icon_url)

RemoteComments ==
    {[id |-> <<"c1">>, body |-> <<"b">>, user |-> u, createdAt |-> <<"c">>]
     : u \in {None, [name |-> <<"n">>]}}

ProjectComment(comment) ==
    [id |-> Str(comment.id), body |-> Str(comment.body),
     user |-> IF IsNone(comment.user) THEN None ELSE Str(comment.user.name),
     created_at |-> Str(comment.createdAt)]

\* what add_comment returns or raises on the mutation's response
CommentOutcome(resp) ==
    IF ExecuteQuery(resp).kind = "raise" THEN ExecuteQuery(resp)
    ELSE LET r == MutationResult(ExecuteQuery(resp).value, "commentCreate") IN
         IF r.kind = "raise" THEN r
         ELSE IF ~Succeeded(r.value) THEN Return(None)
         ELSE Return(ProjectComment(r.value.comment))

CommentMutation ==
    /\ pc = "comment_mutation"
    /\ sent' = Append(sent, Request("CreateComment", [input |-> CommentInput(args)]))
    /\ \E resp \in MutationResponses("commentCreate", "comment", RemoteComments) :
        /\ received' = Append(received, resp)
        /\ outcome' = CommentOutcome(resp)
    /\ pc' = AfterMutation(pc, outcome')
    /\ reply' = HandlerReply(server, handler, outcome')
    /\ UNCHANGED <<op, args, states, state_id, team_id, server, linear_client, handler, params,
                   suspended>>

\* ---------------------------------------------------------- get_user_issues
UserId == <<"u1">>
\* user_id: omitted, empty, or an id
OptUserId == {None, Str(<<>>), Str(UserId)}
UserLimits == {1, 50}

UserIssuesArgs ==
    [user_id : OptUserId, include_archived : BOOLEAN, limit : UserLimits]

\* linear_get_user_issues passes its parameters on under the same names
CallGetUserIssues ==
    /\ pc = "idle"
    /\ \E a \in UserIssuesArgs :
        Invoke("linear_get_user_issues", a, "get_user_issues", a, "user_issues_query")
    /\ UNCHANGED team_id

\* actual_user_id = None if user_id == "me" else user_id
ActualUserId(user_id) == IF user_id = Str(<<"me">>) THEN None ELSE user_id

\* the resource calls get_user_issues(user_id=actual_user_id): the flag and
\* the limit take the defaults of the signature
CallGetUserAssigned ==
    /\ pc = "idle"
    /\ server = "mcp_linear"
    /\ \E u \in {Str(<<"me">>), Str(UserId)} :
        Invoke("get_user_assigned", [user_id |-> u], "get_user_issues",
               [user_id |-> ActualUserId(u), include_archived |-> FALSE, limit |-> 50],
               "user_issues_query")
    /\ UNCHANGED team_id

\* if user_id: the user's issues, else the viewer's
AssigneeRoot(a) == IF Truthy(a.user_id) THEN "user" ELSE "viewer"

UserIssuesRequest(a) ==
    IF Truthy(a.user_id)
    THEN Request("UserIssues",
                 [userId |-> a.user_id, first |-> a.limit,
                  includeArchived |-> a.include_archived])
    ELSE Request("ViewerIssues",
                 [first |-> a.limit, includeArchived |-> a.include_archived])

\* issues as the remote lists them for an assignee; archivedAt is null
\* unless the issue is archived
AssignedIssues ==
    {[id |-> <<"uuid-1">>, identifier |-> <<"T-1">>, title |-> <<"t">>,
      description |-> None, priority |-> Num(2), state |-> st,
      team |-> [key |-> TeamKey], url |-> <<"u">>, createdAt |-> <<"c">>,
      archivedAt |-> at]
     : st \in {None, [name |-> <<"a">>]}, at \in {None, Str(<<"z">>)}}

AssignedLists ==
    {<<>>} \cup {<<i>> : i \in AssignedIssues}
    \cup {<<i, j>> : i \in {x \in AssignedIssues : IsNone(x.archivedAt) /\ IsNone(x.state)},
                     j \in {x \in AssignedIssues : ~IsNone(x.archivedAt) /\ ~IsNone(x.state)}}

UserIssuesResponses(root) ==
    {HttpError, Ok(EmptyDict), Ok([data |-> None]), Ok([data |-> EmptyDict]),
     Ok([data |-> (root :> None)]), Ok([data |-> (root :> EmptyDict)]),
     Ok([data |-> (root :> [assignedIssues |-> None])])}
    \cup {Ok([data |-> (root :> [assignedIssues |-> [nodes |-> l]])]) : l \in AssignedLists}

\* result.get("data", {}).get(root, {}).get("assignedIssues", {}).get("nodes", [])
AssignedNodes(body, root) ==
    LET data == Get(body, "data", EmptyDict) IN
    IF IsNone(data) THEN AttributeError
    ELSE LET who == Get(data, root, EmptyDict) IN
         IF IsNone(who) THEN AttributeError
         ELSE LET assigned == Get(who, "assignedIssues", EmptyDict) IN
              IF IsNone(assigned) THEN AttributeError
              ELSE Return(Get(assigned, "nodes", <<>>))

\* ProjectAssigned reporting every issue as not archived
ProjectAssignedDropsArchivedAt(issue) ==
    [id |-> Str(issue.id), identifier |-> Str(issue.identifier),
     title |-> Str(issue.title), description |-> issue.description,
     priority |-> issue.priority,
     state |-> IF IsNone(issue.state) THEN None ELSE Str(issue.state.name),
     team |-> Str(issue.team.key), url |-> Str(issue.url),
     created_at |-> Str(issue.createdAt), archived_at |-> None]

ProjectAssigned(issue) ==
    [id |-> Str(issue.id), identifier |-> Str(issue.identifier),
     title |-> Str(issue.title), description |-> issue.description,
     priority |-> issue.priority,
     state |-> IF IsNone(issue.state) THEN None ELSE Str(issue.state.name),
     team |-> Str(issue.team.key), url |-> Str(issue.url),
     created_at |-> Str(issue.createdAt), archived_at |-> issue.archivedAt]

UserIssuesOutcome(resp, root) ==
    IF ExecuteQuery(resp).kind = "raise" THEN ExecuteQuery(resp)
    ELSE LET nodes == AssignedNodes(ExecuteQuery(resp).value, root) IN
         IF nodes.kind = "raise" THEN nodes
         ELSE Return([i \in 1..Len(nodes.value) |-> ProjectAssigned(nodes.value[i])])

GetUserIssuesQuery ==
    /\ pc = "user_issues_query"
    /\ sent' = Append(sent, UserIssuesRequest(args))
    /\ \E resp \in UserIssuesResponses(AssigneeRoot(args)) :
        /\ received' = Append(received, resp)
        /\ outcome' = UserIssuesOutcome(resp, AssigneeRoot(args))
    /\ pc' = "done"
    /\ reply' = HandlerReply(server, handler, outcome')
    /\ UNCHANGED <<op, args, states, state_id, team_id, server, linear_client, handler, params,
                   suspended>>

\* ------------------------------------------------ get_viewer, get_organization
\* d[k] on a dict without the key, and on None
KeyError(k) == Raise("KeyError", <<"'", k, "'">>)
TypeError == Raise("TypeError", <<"'NoneType' object is not subscriptable">>)

RemoteTeams == <<[id |-> TeamId, name |-> <<"Ops">>, key |-> TeamKey]>>
RemoteOrganization == [id |-> <<"org-1">>, name |-> <<"Org">>, urlKey |-> <<"org">>]
RemoteViewer ==
    [id |-> UserId, name |-> <<"n">>, email |-> Str(<<"e">>), admin |-> FALSE,
     teams |-> [nodes |-> RemoteTeams]]
RemoteUsers ==
    <<[id |-> UserId, name |-> <<"n">>, email |-> Str(<<"e">>), admin |-> FALSE,
       active |-> TRUE]>>

ProjectTeams(holder) ==
    LET teams == Get(holder, "teams", EmptyDict) IN
    IF IsNone(teams) THEN AttributeError
    ELSE LET nodes == Get(teams, "nodes", <<>>) IN
         Return([i \in 1..Len(nodes) |->
                    [id |-> Str(nodes[i].id), name |-> Str(nodes[i].name),
                     key |-> Str(nodes[i].key)]])

\* {"id": organization["id"], "name": ..., "urlKey": ...}
ProjectOrganization(organization) ==
    IF IsNone(organization) THEN TypeError
    ELSE IF organization = EmptyDict THEN KeyError("id")
    ELSE Return([id |-> Str(organization.id), name |-> Str(organization.name),
                 urlKey |-> Str(organization.urlKey)])

CallGetViewer ==
    /\ pc = "idle"
    /\ server = "mcp_linear"
    /\ Invoke("get_viewer", EmptyDict, "get_viewer", EmptyDict, "viewer_query")
    /\ UNCHANGED team_id

ViewerResponses ==
    {HttpError, Ok(EmptyDict), Ok([data |-> None]), Ok([data |-> EmptyDict])}
    \cup {Ok([data |-> [viewer |-> v, organization |-> o]])
          : v \in {None, RemoteViewer, [RemoteViewer EXCEPT !.teams = None]},
            o \in {None, RemoteOrganization}}

ViewerResult(body) ==
    LET data == Get(body, "data", EmptyDict) IN
    IF IsNone(data) THEN AttributeError
    ELSE LET viewer == Get(data, "viewer", EmptyDict)
             organization == Get(data, "organization", EmptyDict)
         IN  IF IsNone(viewer) THEN TypeError
             ELSE IF viewer = EmptyDict THEN KeyError("id")
             ELSE LET teams == ProjectTeams(viewer)
                      org == ProjectOrganization(organization)
                  IN  IF teams.kind = "raise" THEN teams
                      ELSE IF org.kind = "raise" THEN org
                      ELSE Return([id |-> Str(viewer.id), name |-> Str(viewer.name),
                                   email |-> Get(viewer, "email", None),
                                   admin |-> Get(viewer, "admin", None),
                                   teams |-> teams.value,
                                   organization |-> org.value])

ViewerOutcome(resp) ==
    IF ExecuteQuery(resp).kind = "raise" THEN ExecuteQuery(resp)
    ELSE ViewerResult(ExecuteQuery(resp).value)

\* get_viewer passes no variables
GetViewerQuery ==
    /\ pc = "viewer_query"
    /\ sent' = Append(sent, Request("Viewer", None))
    /\ \E resp \in ViewerResponses :
        /\ received' = Append(received, resp)
        /\ outcome' = ViewerOutcome(resp)
    /\ pc' = "done"
    /\ reply' = HandlerReply(server, handler, outcome')
    /\ UNCHANGED <<op, args, states, state_id, team_id, server, linear_client, handler, params,
                   suspended>>

CallGetOrganization ==
    /\ pc = "idle"
    /\ server = "mcp_linear"
    /\ Invoke("get_organization", EmptyDict, "get_organization", EmptyDict,
              "organization_query")
    /\ UNCHANGED team_id

OrganizationResponses ==
    {HttpError, Ok(EmptyDict), Ok([data |-> None]), Ok([data |-> EmptyDict]),
     Ok([data |-> [organization |-> None]])}
    \cup {Ok([data |-> [organization |->
                 [id |-> <<"org-1">>, name |-> <<"Org">>, urlKey |-> <<"org">>,
                  teams |-> t, users |-> u]]])
          : t \in {None, [nodes |-> RemoteTeams]}, u \in {None, [nodes |-> RemoteUsers]}}

ProjectUsers(organization) ==
    LET users == Get(organization, "users", EmptyDict) IN
    IF IsNone(users) THEN AttributeError
    ELSE LET nodes == Get(users, "nodes", <<>>) IN
         Return([i \in 1..Len(nodes) |->
                    [id |-> Str(nodes[i].id), name |-> Str(nodes[i].name),
                     email |-> Get(nodes[i], "email", None),
                     admin |-> Get(nodes[i], "admin", None),
                     active |-> Get(nodes[i], "active", None)]])

OrganizationResult(body) ==
    LET data == Get(body, "data", EmptyDict) IN
    IF IsNone(data) THEN AttributeError
    ELSE LET organization == Get(data, "organization", EmptyDict)
             head == ProjectOrganization(organization)
         IN  IF head.kind = "raise" THEN head
             ELSE LET teams == ProjectTeams(organization)
                      users == ProjectUsers(organization)
                  IN  IF teams.kind = "raise" THEN teams
                      ELSE IF users.kind = "raise" THEN users
                      ELSE Return([id |-> head.value.id, name |-> head.value.name,
                                   urlKey |-> head.value.urlKey,
                                   teams |-> teams.value, users |-> users.value])

OrganizationOutcome(resp) ==
    IF ExecuteQuery(resp).kind = "raise" THEN ExecuteQuery(resp)
    ELSE OrganizationResult(ExecuteQuery(resp).value)

GetOrganizationQuery ==
    /\ pc = "organization_query"
    /\ sent' = Append(sent, Request("Organization", None))
    /\ \E resp \in OrganizationResponses :
        /\ received' = Append(received, resp)
        /\ outcome' = OrganizationOutcome(resp)
    /\ pc' = "done"
    /\ reply' = HandlerReply(server, handler, outcome')
    /\ UNCHANGED <<op, args, states, state_id, team_id, server, linear_client, handler, params,
                   suspended>>

\* the host takes the reply; the server is ready for the next invocation
Finish ==
    /\ pc = "done"
    /\ handler' = "none"
    /\ params' = EmptyDict
    /\ reply' = NoReply
    /\ UNCHANGED <<server, linear_client, suspended>>
    /\ pc' = "idle"
    /\ op' = "none"
    /\ args' = EmptyDict
    /\ sent' = <<>>
    /\ received' = <<>>
    /\ states' = <<>>
    /\ state_id' = None
    /\ team_id' = None
    /\ outcome' = NoOutcome

Next ==
    \/ InitializeClient
    \/ CallCreateIssue
    \/ CreateStatesQuery
    \/ CreateMutation
    \/ CallUpdateIssue
    \/ UpdateIssueTeamQuery
    \/ UpdateStatesQuery
    \/ UpdateMutation
    \/ CallSearchIssues
    \/ SearchTeamQuery
    \/ SearchQuery
    \/ CallGetIssue
    \/ GetIssueQuery
    \/ CallGetTeamIssues
    \/ GetTeamIssuesQuery
    \/ CallAddComment
    \/ CommentMutation
    \/ CallGetUserIssues
    \/ CallGetUserAssigned
    \/ GetUserIssuesQuery
    \/ CallGetViewer
    \/ GetViewerQuery
    \/ CallGetOrganization
    \/ GetOrganizationQuery
    \/ Finish

Spec == Init /\ [][Next]_vars

\* --------------------------------------------------------------- concurrency
\* Two invocations in flight on the one client.  Everything an operation
\* works with is a parameter or a local of its call, so each invocation has
\* a frame of its own; the client object (linear_client) is all they share.
\* The variables above are the running invocation's frame, `suspended` is
\* the other's, and Switch hands the processor over between two requests.
Frame ==
    [handler |-> handler, params |-> params, reply |-> reply, pc |-> pc,
     op |-> op, args |-> args, sent |-> sent, received |-> received,
     states |-> states, state_id |-> state_id, team_id |-> team_id,
     outcome |-> outcome]

\* ResumedTeamId for a team id kept on the shared client instead
SharedTeamId(f) == team_id

\* team_id is a parameter of search_issues, rebound inside the call: the
\* resumed invocation finds its own
ResumedTeamId(f) == f.team_id

Switch ==
    /\ suspended' = Frame
    /\ handler' = suspended.handler
    /\ params' = suspended.params
    /\ reply' = suspended.reply
    /\ pc' = suspended.pc
    /\ op' = suspended.op
    /\ args' = suspended.args
    /\ sent' = suspended.sent
    /\ received' = suspended.received
    /\ states' = suspended.states
    /\ state_id' = suspended.state_id
    /\ team_id' = ResumedTeamId(suspended)
    /\ outcome' = suspended.outcome
    /\ UNCHANGED <<server, linear_client>>

\* the searches and comments issued concurrently
ConcurrentSearchArgs ==
    [query : {None}, team_id : {Str(TeamKey), Str(TeamId)}, status : {None},
     assignee_id : {None}, labels : {None}, priority : {None, Num(2)}, limit : {10}]

ConcurrentCommentArgs ==
    [issue_id : {Str(IssueId)}, body : {Str(b) : b \in Bodies},
     create_as_user : {Str(<<"Bot">>)}, display_icon_url : {None}]

ConcurrentSearch ==
    /\ pc = "idle"
    /\ \E a \in ConcurrentSearchArgs, estimate \in Estimates,
          include_archived \in IncludeArchived :
        InvokeSearch(SearchParams(server, a, estimate, include_archived))

ConcurrentComment ==
    /\ pc = "idle"
    /\ \E a \in ConcurrentCommentArgs :
        Invoke("linear_add_comment", a, "add_comment", a, "comment_mutation")
    /\ UNCHANGED team_id

ConcurrentNext ==
    \/ InitializeClient
    \/ ConcurrentSearch
    \/ SearchTeamQuery
    \/ SearchQuery
    \/ ConcurrentComment
    \/ CommentMutation
    \/ Finish
    \/ Switch

ConcurrentSpec == Init /\ [][ConcurrentNext]_vars


\* ================================================================== claims
\* two names are equal ignoring case
SameIgnoringCase(x, y) ==
    /\ Len(x) = Len(y)
    /\ \A i \in 1..Len(x) : x[i] = y[i] \/ {x[i], y[i]} = {"a", "A"}

\* the response lists the team's workflow states
HasStates(resp) ==
    /\ IsOk(resp)
    /\ "data" \in DOMAIN resp.body
    /\ ~IsNone(resp.body.data)
    /\ "team" \in DOMAIN resp.body.data
    /\ ~IsNone(resp.body.data.team)

StatesOf(resp) == resp.body.data.team.states.nodes

\* the positions of the states whose name is the status, ignoring case
Matching(nodes, status) ==
    {i \in 1..Len(nodes) : SameIgnoringCase(nodes[i].name, status)}

Least(S) == CHOOSE i \in S : \A j \in S : i <= j

IsMutation(req) == req.query \in {"CreateIssue", "UpdateIssue"}

StateIdUnset(input) == "stateId" \notin DOMAIN input \/ IsNone(input.stateId)

\* C1: every UpdateIssue mutation's input has a key for exactly the fields
\* among title / description / priority that the caller passed (not None),
\* with the value passed, an empty string included; with only priority = 2
\* given the input is exactly {priority: 2}.
C1_UpdateInputHoldsExactlyProvided ==
    \A k \in 1..Len(sent) :
        sent[k].query = "UpdateIssue" =>
            LET input == sent[k].variables.input
                provided == {f \in {"title", "description", "priority"} : args[f] # None}
            IN  /\ DOMAIN input \ {"stateId"} = provided
                /\ \A f \in provided : input[f] = args[f]
                /\ (args.status = None => "stateId" \notin DOMAIN input)
                /\ (/\ args.title = None
                    /\ args.description = None
                    /\ args.priority = Num(2)
                    /\ args.status = None) => input = [priority |-> Num(2)]

\* an update with an explicitly empty title and nothing else has sent it
C1_Witness ==
    /\ op = "update_issue"
    /\ pc = "done"
    /\ args.title = Str(<<>>)
    /\ args.description = None
    /\ args.priority = None
    /\ sent[Len(sent)].query = "UpdateIssue"
    /\ sent[Len(sent)].variables.input = [title |-> Str(<<>>)]

\* C2: every CreateIssue mutation's input has, besides the state id, keys
\* only for title, team id and those of description / priority the caller
\* gave.
C2_CreateInputHoldsOnlyProvided ==
    \A k \in 1..Len(sent) :
        sent[k].query = "CreateIssue" =>
            LET input == sent[k].variables.input
                provided == {f \in {"description", "priority"} : args[f] # None}
            IN  DOMAIN input \ {"stateId"} = {"title", "teamId"} \cup provided

\* C3: when the team's states were fetched and none is named as the status
\* (ignoring case), the operation goes on to its mutation, and the mutation
\* sets no state id.
C3_UnmatchedStatusSetsNoState ==
    \A k \in 1..Len(received) :
        (/\ sent[k].query = "States"
         /\ HasStates(received[k])
         /\ Matching(StatesOf(received[k]), args.status.str) = {}) =>
            /\ pc \in {"create_mutation", "update_mutation", "done"}
            /\ (pc = "done" => Len(sent) = k + 1)
            /\ \A j \in (k + 1)..Len(sent) :
                /\ IsMutation(sent[j])
                /\ StateIdUnset(sent[j].variables.input)

\* an update whose status "a" is only a prefix of the team's state names
C3_Witness ==
    /\ op = "update_issue"
    /\ pc = "done"
    /\ args.status = Str(<<"a">>)
    /\ Len(sent) = 3
    /\ HasStates(received[2])
    /\ Len(StatesOf(received[2])) = 2
    /\ \A i \in 1..2 : StatesOf(received[2])[i].name = <<"a", "A">>
    /\ sent[3].query = "UpdateIssue"
    /\ "stateId" \notin DOMAIN sent[3].variables.input

\* C4: when some fetched state is named as the status ignoring case, the
\* mutation that follows carries the id of the earliest such state in the
\* order returned.
C4_FirstCaseInsensitiveMatchWins ==
    \A k \in 1..Len(received) :
        (/\ sent[k].query = "States"
         /\ HasStates(received[k])
         /\ k < Len(sent)) =>
            LET nodes == StatesOf(received[k])
                m == Matching(nodes, args.status.str)
                input == sent[k + 1].variables.input
            IN  m # {} =>
                    /\ "stateId" \in DOMAIN input
                    /\ input.stateId = Str(nodes[Least(m)].id)

\* create with status "Aa" in a team with states [s1 "a", s2 "aA"] sent s2
C4_Witness ==
    /\ op = "create_issue"
    /\ pc = "done"
    /\ args.status = Str(<<"A", "a">>)
    /\ Len(sent) = 2
    /\ HasStates(received[1])
    /\ StatesOf(received[1]) = <<[id |-> <<"s1">>, name |-> <<"a">>],
                                 [id |-> <<"s2">>, name |-> <<"a", "A">>]>>
    /\ sent[2].variables.input.stateId = Str(<<"s2">>)

\* the caller gave the filter a value: not None, and not "" or []
Given(v) == v # None /\ v # Str(<<>>) /\ v # List(<<>>)

NoDash(s) == \A i \in 1..Len(s) : s[i] # "-"

\* the response names a team
HasTeam(resp) ==
    /\ IsOk(resp)
    /\ "data" \in DOMAIN resp.body
    /\ ~IsNone(resp.body.data)
    /\ "team" \in DOMAIN resp.body.data
    /\ ~IsNone(resp.body.data.team)
    /\ "id" \in DOMAIN resp.body.data.team

\* C5: a search whose team identifier has no "-" sends the team-by-key
\* lookup first and the search second, and the search filters on the id the
\* lookup returned; an identifier with a "-" is looked up nowhere and is
\* the filter's team id as given.
C5_TeamKeyResolvedBeforeSearch ==
    \A k \in 1..Len(sent) :
        sent[k].query = "SearchIssues" =>
            LET filter == sent[k].variables.filter IN
            /\ (Given(args.team_id) /\ NoDash(args.team_id.str)) =>
                    /\ k = 2
                    /\ sent[1] = [query |-> "Team", variables |-> [key |-> args.team_id]]
                    /\ HasTeam(received[1]) =>
                            filter.team = [id |-> [eq |-> received[1].body.data.team.id]]
            /\ (Given(args.team_id) /\ ~NoDash(args.team_id.str)) =>
                    /\ k = 1
                    /\ filter.team = [id |-> [eq |-> args.team_id]]

\* a search for team "OPS" filtered on the id the lookup returned
C5_Witness ==
    /\ op = "search_issues"
    /\ pc = "done"
    /\ args.team_id = Str(TeamKey)
    /\ Len(sent) = 2
    /\ sent[1].query = "Team"
    /\ HasTeam(received[1])
    /\ sent[2].query = "SearchIssues"
    /\ sent[2].variables.filter.team.id.eq = Str(ResolvedTeamId)
    /\ sent[2].variables.filter.team.id.eq # args.team_id

AllFiltersAbsent ==
    /\ args.query = None
    /\ args.team_id = None
    /\ args.status = None
    /\ args.assignee_id = None
    /\ args.labels = None
    /\ args.priority = None

\* C6: a search with no filter argument sends variables holding the limit
\* as "first" and a filter key whose value is the empty object.
C6_NoFiltersSendEmptyFilterAndLimit ==
    \A k \in 1..Len(sent) :
        (sent[k].query = "SearchIssues" /\ AllFiltersAbsent) =>
            /\ DOMAIN sent[k].variables = {"first", "filter"}
            /\ ~IsNone(sent[k].variables.filter)
            /\ DOMAIN sent[k].variables.filter = {}
            /\ sent[k].variables.first = args.limit

C6_Witness ==
    /\ op = "search_issues"
    /\ pc = "done"
    /\ AllFiltersAbsent
    /\ args.limit = 1
    /\ Len(sent) = 1
    /\ sent[1].query = "SearchIssues"
    /\ sent[1].variables.first = 1
    /\ DOMAIN sent[1].variables.filter = {}

\* the argument behind each filter key that is dropped when empty
FilterArgument ==
    [or |-> "query", team |-> "team_id", state |-> "status",
     assignee |-> "assignee_id", labels |-> "labels"]

\* C7: the search filter has one key per condition given and no other; the
\* text query is an "or" of title-contains and description-contains, the
\* status an equality on the name as given, the labels a some-name-in over
\* the names given.
C7_FilterHasOneKeyPerCondition ==
    \A k \in 1..Len(sent) :
        sent[k].query = "SearchIssues" =>
            LET filter == sent[k].variables.filter IN
            /\ DOMAIN filter =
                   {f \in DOMAIN FilterArgument : Given(args[FilterArgument[f]])}
                   \cup (IF args.priority # None THEN {"priority"} ELSE {})
            /\ Given(args.query) =>
                   filter["or"] = <<[title |-> [contains |-> args.query]],
                                    [description |-> [contains |-> args.query]]>>
            /\ Given(args.team_id) =>
                   /\ DOMAIN filter.team = {"id"}
                   /\ DOMAIN filter.team.id = {"eq"}
            /\ Given(args.status) => filter.state = [name |-> [eq |-> args.status]]
            /\ Given(args.assignee_id) => filter.assignee = [id |-> [eq |-> args.assignee_id]]
            /\ Given(args.labels) => filter.labels = [some |-> [name |-> [in |-> args.labels]]]
            /\ args.priority # None => filter.priority = [eq |-> args.priority]

\* a search with all six conditions, an upper-case status and two labels
C7_Witness ==
    /\ op = "search_issues"
    /\ pc = "done"
    /\ args.status = Str(<<"A">>)
    /\ args.labels = List(<<<<"bug">>, <<"urgent">>>>)
    /\ sent[Len(sent)].query = "SearchIssues"
    /\ DOMAIN sent[Len(sent)].variables.filter =
           {"or", "team", "state", "assignee", "labels", "priority"}
    /\ sent[Len(sent)].variables.filter.state.name.eq = Str(<<"A">>)

\* the response has no data payload
NoData(resp) ==
    /\ IsOk(resp)
    /\ \/ "data" \notin DOMAIN resp.body
       \/ IsNone(resp.body.data)
       \/ resp.body.data = EmptyDict

\* the response reports at least one error message
ReportsError(resp) ==
    /\ "errors" \in DOMAIN resp.body
    /\ resp.body.errors # <<>>
    /\ "message" \in DOMAIN resp.body.errors[1]

SearchAnswered ==
    /\ op = "search_issues"
    /\ pc = "done"
    /\ sent[Len(sent)].query = "SearchIssues"

\* C8 as stated: on a response with no data payload the search fails with
\* the first reported remote error message as its message, verbatim.
C8_ErrorMessageVerbatim ==
    (/\ SearchAnswered
     /\ NoData(received[Len(received)])
     /\ ReportsError(received[Len(received)])) =>
        /\ outcome.kind = "raise"
        /\ outcome.message = received[Len(received)].body.errors[1].message

\* C8 amended: on a response with no data payload the search never returns;
\* it fails with an Exception whose message is "Search failed: " followed by
\* the first reported remote error message, or by "Unknown error" when the
\* response has no errors field.
C8_ErrorMessageWrapped ==
    (SearchAnswered /\ NoData(received[Len(received)])) =>
        LET resp == received[Len(received)] IN
        /\ outcome.kind = "raise"
        /\ outcome.type = "Exception"
        /\ ReportsError(resp) =>
               outcome.message = <<"Search failed: ">> \o resp.body.errors[1].message
        /\ "errors" \notin DOMAIN resp.body =>
               outcome.message = <<"Search failed: ", "Unknown error">>

\* a search answered with null data and the errors m1, m2 failed with m1
C8_Witness ==
    /\ SearchAnswered
    /\ received[Len(received)] =
           Ok([data |-> None, errors |-> <<[message |-> <<"m1">>], [message |-> <<"m2">>]>>])
    /\ outcome = Raise("Exception", <<"Search failed: ", "m1">>)

Contains(s, sub) ==
    \E i \in 1..(Len(s) - Len(sub) + 1) : SubSeq(s, i, i + Len(sub) - 1) = sub

\* the response carries no value under data.<entity>
NoEntity(resp, entity) ==
    /\ IsOk(resp)
    /\ \/ "data" \notin DOMAIN resp.body
       \/ IsNone(resp.body.data)
       \/ entity \notin DOMAIN resp.body.data
       \/ IsNone(resp.body.data[entity])
       \/ resp.body.data[entity] = EmptyDict

\* C9: a get_issue answered without an issue, and a get_team_issues
\* answered without a team, fails with the not-found error (ValueError)
\* whose message contains the identifier asked for.
C9_AbsentEntityRaisesNotFound ==
    /\ (op = "get_issue" /\ pc = "done" /\ NoEntity(received[1], "issue")) =>
           /\ outcome.kind = "raise"
           /\ outcome.type = "ValueError"
           /\ Contains(outcome.message, args.issue_id.str)
    /\ (op = "get_team_issues" /\ pc = "done" /\ NoEntity(received[1], "team")) =>
           /\ outcome.kind = "raise"
           /\ outcome.type = "ValueError"
           /\ Contains(outcome.message, args.team_id.str)

MutationField ==
    [create_issue |-> "issueCreate", update_issue |-> "issueUpdate",
     add_comment |-> "commentCreate"]

\* the response reports success: b for the mutation
ReportsSuccess(resp, field, b) ==
    /\ IsOk(resp)
    /\ "data" \in DOMAIN resp.body
    /\ ~IsNone(resp.body.data)
    /\ field \in DOMAIN resp.body.data
    /\ ~IsNone(resp.body.data[field])
    /\ "success" \in DOMAIN resp.body.data[field]
    /\ resp.body.data[field].success = b

MutationAnswered ==
    /\ op \in DOMAIN MutationField
    /\ pc = "done"
    /\ sent[Len(sent)].query \in {"CreateIssue", "UpdateIssue", "CreateComment"}

\* C10: a create_issue, update_issue or add_comment whose mutation is
\* answered success: false returns None and raises nothing; one that
\* returns an entity was answered success: true.
C10_FailureReturnsNone ==
    MutationAnswered =>
        LET resp == received[Len(received)] IN
        /\ ReportsSuccess(resp, MutationField[op], FALSE) => outcome = Return(None)
        /\ (outcome.kind = "return" /\ outcome.value # None) =>
               ReportsSuccess(resp, MutationField[op], TRUE)

\* a create_issue answered success: false returned None
C10_Witness ==
    /\ op = "create_issue"
    /\ MutationAnswered
    /\ ReportsSuccess(received[Len(received)], "issueCreate", FALSE)
    /\ outcome = Return(None)

\* C11: every CreateComment mutation's input holds the issue id and the body
\* passed, createAsUser exactly when an override display name was given (with
\* that name) and displayIconUrl exactly when an avatar URL was given (with
\* that URL), and nothing else; either override is sent without the other.
C11_CommentInputHoldsGivenOverrides ==
    \A k \in 1..Len(sent) :
        sent[k].query = "CreateComment" =>
            LET input == sent[k].variables.input IN
            /\ DOMAIN input \subseteq {"issueId", "body", "createAsUser", "displayIconUrl"}
            /\ input.issueId = args.issue_id
            /\ input.body = args.body
            /\ ("createAsUser" \in DOMAIN input) <=> Given(args.create_as_user)
            /\ ("displayIconUrl" \in DOMAIN input) <=> Given(args.display_icon_url)
            /\ Given(args.create_as_user) => input.createAsUser = args.create_as_user
            /\ Given(args.display_icon_url) =>
                   input.displayIconUrl = args.display_icon_url

\* add_comment(create_as_user="Bot") with no avatar sent createAsUser: "Bot"
\* and no avatar field
C11_WitnessNameOnly ==
    /\ op = "add_comment"
    /\ args.create_as_user = Str(<<"Bot">>)
    /\ args.display_icon_url = None
    /\ Len(sent) = 1
    /\ sent[1].variables.input =
           [issueId |-> Str(IssueId), body |-> Str(<<"b">>),
            createAsUser |-> Str(<<"Bot">>)]

\* -------------------------------------------------------------- the host's view
\* the handler has returned to the host
Replied == pc = "done"

\* the client operation raised
Raised == outcome.kind = "raise"

Contexts == {Context[h] : h \in DOMAIN Context}

\* s is "Error: <context> - <message>" for the message given
UniformError(s, message) ==
    /\ Len(s) >= 3
    /\ s[1] = "Error: "
    /\ s[2] \in Contexts
    /\ s[3] = " - "
    /\ SubSeq(s, 4, Len(s)) = message

\* a value a handler can return: a string or, from a resource, a dict
ReturnedValue(r) ==
    \/ DOMAIN r = {"text"}
    \/ DOMAIN r = {"json"}
    \/ DOMAIN r = {"mimeType", "data"}
    \/ DOMAIN r = {"error"}

\* C12: whenever a tool's client operation raises, whatever the exception,
\* the tool returns the string "Error: <context> - <message>" with the
\* exception's message; every tool and resource handler returns a value to
\* the host, none lets an exception through.
C12_ExceptionsBecomeErrorStrings ==
    Replied =>
        /\ ReturnedValue(reply)
        /\ (handler \in Tools /\ Raised) =>
               /\ DOMAIN reply = {"text"}
               /\ UniformError(reply.text, outcome.message)

\* an update_issue that hit a null data payload came back from the tool as
\* the error string
C12_Witness ==
    /\ Replied
    /\ handler = "linear_update_issue"
    /\ outcome = AttributeError
    /\ reply = Text(<<"Error: ", "Failed to update issue", " - ",
                      "'NoneType' object has no attribute 'get'">>)

\* the field of a tool's success object that carries the result
Payload ==
    [linear_create_issue |-> "issue", linear_update_issue |-> "issue",
     linear_search_issues |-> "issues", linear_get_user_issues |-> "issues",
     linear_add_comment |-> "comment"]

\* the invocation failed: no client, an exception, or a mutation without entity
Failed ==
    \/ outcome.kind # "return"
    \/ handler \in MutationTools /\ IsNone(outcome.value)

\* C13: a tool returns, on success, the JSON encoding of an object with a
\* message and the operation's result under issue / issues / comment, and on
\* any failure (a mutation that yields no entity included) a string that
\* begins with "Error:"; a resource returns a dict with exactly mimeType and
\* data on success and exactly error on failure.
C13_ToolsAndResourcesReturnOneOfTwoShapes ==
    Replied =>
        /\ handler \in Tools =>
               IF Failed
               THEN /\ DOMAIN reply = {"text"}
                    /\ reply.text[1] = "Error: "
               ELSE /\ DOMAIN reply = {"json"}
                    /\ {"message", Payload[handler]} \subseteq DOMAIN reply.json
                    /\ reply.json[Payload[handler]] = outcome.value
        /\ handler \in Resources =>
               IF Failed
               THEN DOMAIN reply = {"error"}
               ELSE /\ DOMAIN reply = {"mimeType", "data"}
                    /\ reply.data = outcome.value

\* a create_issue the remote refused (success: false) came back from the tool
\* as an error string
C13_Witness ==
    /\ Replied
    /\ handler = "linear_create_issue"
    /\ outcome = Return(None)
    /\ reply = Text(<<"Error: ", "Failed to create issue">>)

\* ---------------------------------------------------------------- round trips
QueryNames(reqs) == [k \in 1..Len(reqs) |-> reqs[k].query]

\* C14 as stated: no operation posts more than two requests.
C14_AtMostTwoRoundTrips == Len(sent) <= 2

\* C14, amended: an operation posts at most three requests, three only in
\* an update_issue with a status (issue's team, team's states, mutation) and
\* at most two otherwise; every request is answered before the next is posted.
C14_AtMostThreeRoundTrips ==
    /\ Len(sent) <= 3
    /\ Len(sent) = 3 => op = "update_issue" /\ Truthy(args.status)
    /\ Len(received) = Len(sent)

\* an update_issue with a status has posted its third request
C14_Witness ==
    /\ op = "update_issue"
    /\ Truthy(args.status)
    /\ QueryNames(sent) = <<"Issue", "States", "UpdateIssue">>

\* the message of the exception an operation raises on a transport failure
\* of request k: search_issues re-raises what its search request raised
AfterTransportFailure(k) ==
    IF sent[k].query = "SearchIssues"
    THEN Raise("Exception", <<"Search failed: ">> \o TransportError.message)
    ELSE TransportError

\* the handler reported the operation's exception to the host
ReportedFailure ==
    IF handler \in Tools
    THEN DOMAIN reply = {"text"} /\ UniformError(reply.text, outcome.message)
    ELSE reply = [error |-> <<Context[handler], ": ">> \o outcome.message]

\* the response has both an entity and an errors field
PartialErrors(resp) ==
    /\ IsOk(resp)
    /\ {"data", "errors"} \subseteq DOMAIN resp.body

\* C15 as stated: a non-success status of any request reaches the caller of
\* the operation as the TransportError itself.
C15_TransportErrorReachesCaller ==
    \A k \in 1..Len(received) :
        ~IsOk(received[k]) => Replied /\ outcome = TransportError

\* C15, amended: every request is posted once and answered once; after a
\* non-success status nothing more is posted, the operation raises the
\* TransportError (search_issues, for its search request, an Exception
\* "Search failed: <its message>") and the host gets the failure; a success
\* response is used as decoded, an errors field beside the data changing nothing.
C15_OneRequestNoRetry ==
    /\ Len(received) = Len(sent)
    /\ \A k \in 1..Len(received) :
           ~IsOk(received[k]) =>
               /\ k = Len(sent)
               /\ Replied
               /\ outcome = AfterTransportFailure(k)
               /\ ReportedFailure
    /\ (op = "get_issue" /\ Replied /\ PartialErrors(received[1])) =>
           outcome = GetIssueOutcome(Ok([data |-> received[1].body.data]),
                                     args.issue_id)

\* a get_issue answered with the issue and an errors field returned the issue
C15_Witness ==
    /\ op = "get_issue"
    /\ Replied
    /\ PartialErrors(received[1])
    /\ outcome.kind = "return"

\* ------------------------------------------------------------ assigned issues
\* the issues a response lists under data.<root>.assignedIssues.nodes
ListedIssues(resp, root) ==
    IF /\ "data" \in DOMAIN resp.body
       /\ root \in DOMAIN resp.body.data
       /\ "assignedIssues" \in DOMAIN resp.body.data[root]
    THEN resp.body.data[root].assignedIssues.nodes
    ELSE <<>>

\* what the caller is to get for a listed issue, whoever the assignee is
Projected(node) ==
    [id |-> Str(node.id), identifier |-> Str(node.identifier),
     title |-> Str(node.title), description |-> node.description,
     priority |-> node.priority,
     state |-> IF IsNone(node.state) THEN None ELSE Str(node.state.name),
     team |-> Str(node.team.key), url |-> Str(node.url),
     created_at |-> Str(node.createdAt), archived_at |-> node.archivedAt]

\* C16: a get_user_issues call without a user id posts ViewerIssues, one with
\* a user id posts UserIssues for that id (the resource's "me" counts as no
\* id); both carry the limit and the include-archived flag passed, and both
\* return, for each issue listed, the same projection, its archived
\* timestamp being the remote's archivedAt as is, null included.
C16_AssigneePathsAgree ==
    (op = "get_user_issues" /\ Len(sent) >= 1) =>
        LET req == sent[1]
            common == [first |-> args.limit, includeArchived |-> args.include_archived]
            root == IF Given(args.user_id) THEN "user" ELSE "viewer"
        IN  /\ IF Given(args.user_id)
               THEN /\ req.query = "UserIssues"
                    /\ req.variables = [userId |-> args.user_id] @@ common
               ELSE /\ req.query = "ViewerIssues"
                    /\ req.variables = common
            /\ (handler = "get_user_assigned" /\ params.user_id = Str(<<"me">>)) =>
                   req.query = "ViewerIssues"
            /\ (Replied /\ outcome.kind = "return") =>
                   LET nodes == ListedIssues(received[1], root) IN
                   /\ Len(outcome.value) = Len(nodes)
                   /\ \A i \in 1..Len(nodes) :
                          /\ outcome.value[i] = Projected(nodes[i])
                          /\ outcome.value[i].archived_at = nodes[i].archivedAt

\* a call without a user id listed the viewer's issues, one not archived and
\* one archived, and returned null and the timestamp for them
C16_Witness ==
    /\ op = "get_user_issues"
    /\ IsNone(args.user_id)
    /\ args.include_archived
    /\ Replied
    /\ sent[1].query = "ViewerIssues"
    /\ outcome.kind = "return"
    /\ Len(outcome.value) = 2
    /\ IsNone(outcome.value[1].archived_at)
    /\ outcome.value[2].archived_at = Str(<<"z">>)

\* --------------------------------------------------------- concurrent calls
\* what search_issues posts and yields, run on its own, for arguments a and
\* the responses rcv read so far
IsolatedSearch(a, rcv) ==
    LET lookup == Request("Team", [key |-> a.team_id])
        search(tid) == Request("SearchIssues", SearchVariables(a, tid))
        n == Len(rcv)
    IN  IF n = 0 THEN [sent |-> <<>>, outcome |-> NoOutcome]
        ELSE IF ~LooksLikeTeamKey(a.team_id)
        THEN [sent |-> <<search(a.team_id)>>, outcome |-> SearchOutcome(SearchTry(rcv[1]))]
        ELSE LET t == TeamLookup(rcv[1], a.team_id) IN
             IF t.kind = "raise" THEN [sent |-> <<lookup>>, outcome |-> t]
             ELSE IF n = 1 THEN [sent |-> <<lookup>>, outcome |-> NoOutcome]
             ELSE [sent |-> <<lookup, search(t.value)>>,
                   outcome |-> SearchOutcome(SearchTry(rcv[2]))]

\* likewise for add_comment
IsolatedComment(a, rcv) ==
    IF Len(rcv) = 0 THEN [sent |-> <<>>, outcome |-> NoOutcome]
    ELSE [sent |-> <<Request("CreateComment", [input |-> CommentInput(a)])>>,
          outcome |-> CommentOutcome(rcv[1])]

Isolated(f) ==
    CASE f.op = "search_issues" -> IsolatedSearch(f.args, f.received)
      [] f.op = "add_comment" -> IsolatedComment(f.args, f.received)
      [] OTHER -> [sent |-> <<>>, outcome |-> NoOutcome]

\* the invocation of frame f has posted and got what it would have on its own
Independent(f) ==
    /\ f.sent = Isolated(f).sent
    /\ f.outcome = Isolated(f).outcome
    /\ f.pc = "done" =>
           f.reply = IF f.op = "none" THEN NotInitialized(f.handler)
                     ELSE HandlerReply(server, f.handler, f.outcome)

\* C17: with two invocations interleaved between their requests, the client
\* object, once constructed, never changes, and each invocation posts the
\* requests and gets the result that its own arguments and the responses to
\* its own requests determine, whatever the other one does.
C17_SessionFixedAndCallsIndependent ==
    /\ [](Independent(Frame) /\ Independent(suspended))
    /\ [][~IsNone(linear_client) => linear_client' = linear_client]_vars

\* a search by team key resolved its key and posted its search while a
\* search by team id, issued meanwhile, waits to post its own
C17_Witness ==
    /\ op = "search_issues"
    /\ args.team_id = Str(TeamKey)
    /\ Len(sent) = 2
    /\ sent[2].variables.filter.team.id.eq = Str(ResolvedTeamId)
    /\ suspended.op = "search_issues"
    /\ suspended.args.team_id = Str(TeamId)
    /\ suspended.pc = "search_query"

\* ------------------------------------------------------ order of the requests
IsPrefix(p, q) == Len(p) <= Len(q) /\ SubSeq(q, 1, Len(p)) = p

\* the response to the Issue query names the issue's team
HasIssueTeam(resp) ==
    /\ IsOk(resp)
    /\ "data" \in DOMAIN resp.body
    /\ ~IsNone(resp.body.data)
    /\ "issue" \in DOMAIN resp.body.data
    /\ ~IsNone(resp.body.data.issue)
    /\ "team" \in DOMAIN resp.body.data.issue
    /\ ~IsNone(resp.body.data.issue.team)
    /\ "id" \in DOMAIN resp.body.data.issue.team
    /\ Given(resp.body.data.issue.team.id)

\* the operation has posted its mutation and the handler has returned
UpdateAnswered ==
    /\ op = "update_issue"
    /\ Replied
    /\ sent[Len(sent)].query = "UpdateIssue"

\* C18 as stated: an update with a status posts Issue, States, UpdateIssue in
\* this order and so one request more than an update without status, which
\* posts the mutation alone.
C18_StatusCostsOneRoundTrip ==
    UpdateAnswered =>
        IF Given(args.status)
        THEN /\ QueryNames(sent) = <<"Issue", "States", "UpdateIssue">>
             /\ Len(sent) = 1 + 1
        ELSE QueryNames(sent) = <<"UpdateIssue">>

\* C18, amended: an update with a status posts Issue, then States for the
\* team id the Issue response names, then UpdateIssue: two requests more
\* than an update without status, or one more (Issue, UpdateIssue) when the
\* Issue response names no team; an update without status posts the
\* mutation alone.
C18_StatusCostsUpToTwoRoundTrips ==
    op = "update_issue" =>
        /\ IF Given(args.status)
           THEN \/ IsPrefix(QueryNames(sent), <<"Issue", "States", "UpdateIssue">>)
                \/ QueryNames(sent) = <<"Issue", "UpdateIssue">>
           ELSE IsPrefix(QueryNames(sent), <<"UpdateIssue">>)
        /\ (Len(sent) >= 2 /\ sent[2].query = "States") =>
               /\ HasIssueTeam(received[1])
               /\ sent[2].variables.teamId = received[1].body.data.issue.team.id
        /\ (UpdateAnswered /\ Given(args.status)) =>
               Len(sent) = IF HasIssueTeam(received[1]) THEN 1 + 2 ELSE 1 + 1

\* an update with a status went through both lookups and its mutation
C18_Witness ==
    /\ UpdateAnswered
    /\ Given(args.status)
    /\ HasIssueTeam(received[1])
    /\ QueryNames(sent) = <<"Issue", "States", "UpdateIssue">>
    /\ sent[2].variables.teamId = Str(TeamId)

SecondaryLookups == {"States", "Issue", "Team"}

Writes == {"CreateIssue", "UpdateIssue", "CreateComment"}

\* C19: when the request of a secondary lookup (States in create_issue, Issue
\* or States in update_issue, Team in search_issues) fails in transport, it
\* is the last request of the operation, the operation raises that
\* TransportError, and neither a mutation nor the search has been posted.
C19_FailedLookupAborts ==
    \A k \in 1..Len(sent) :
        (sent[k].query \in SecondaryLookups /\ ~IsOk(received[k])) =>
            /\ k = Len(sent)
            /\ Replied
            /\ outcome = TransportError
            /\ \A j \in 1..Len(sent) :
                   sent[j].query \notin Writes \cup {"SearchIssues"}

\* an update_issue whose States request failed after the Issue request
\* succeeded stopped there
C19_Witness ==
    /\ op = "update_issue"
    /\ Replied
    /\ QueryNames(sent) = <<"Issue", "States">>
    /\ IsOk(received[1])
    /\ ~IsOk(received[2])
    /\ outcome = TransportError

MutationsPosted == {k \in 1..Len(sent) : sent[k].query \in Writes}

\* C20: a create_issue, update_issue or add_comment never posts a second
\* mutation, posts nothing after its mutation, and whenever it returns, an
\* entity or None, it has posted exactly one, as its last request.
C20_OneMutationLast ==
    op \in DOMAIN MutationField =>
        /\ Cardinality(MutationsPosted) <= 1
        /\ \A k \in MutationsPosted : k = Len(sent)
        /\ (Replied /\ outcome.kind = "return") =>
               /\ Cardinality(MutationsPosted) = 1
               /\ sent[Len(sent)].query \in Writes

\* a create_issue with a status resolved it, posted its mutation once and
\* returned None
C20_Witness ==
    /\ op = "create_issue"
    /\ Replied
    /\ outcome = Return(None)
    /\ QueryNames(sent) = <<"States", "CreateIssue">>

\* --------------------------------------------------- lookups that find nothing
\* the Team (by key) response was decoded and holds no team
NoTeam(resp) ==
    /\ IsOk(resp)
    /\ \/ "data" \notin DOMAIN resp.body
       \/ /\ ~IsNone(resp.body.data)
          /\ \/ "team" \notin DOMAIN resp.body.data
             \/ IsNone(resp.body.data.team)
             \/ resp.body.data.team = EmptyDict

NoIssueTeam(resp) ==
    /\ IsOk(resp)
    /\ \/ "data" \notin DOMAIN resp.body
       \/ /\ ~IsNone(resp.body.data)
          /\ \/ "issue" \notin DOMAIN resp.body.data
             \/ /\ ~IsNone(resp.body.data.issue)
                /\ \/ "team" \notin DOMAIN resp.body.data.issue
                   \/ /\ ~IsNone(resp.body.data.issue.team)
                      /\ \/ "id" \notin DOMAIN resp.body.data.issue.team
                         \/ ~Given(resp.body.data.issue.team.id)

OnlyStatusGiven ==
    /\ args.title = None
    /\ args.description = None
    /\ args.priority = None

Unused == {"estimate", "include_archived"}

\* two parameter sets of linear_search_issues equal but for the unused two
DifferOnlyInUnused(p, q) ==
    /\ DOMAIN p = DOMAIN q
    /\ \A k \in DOMAIN p \ Unused : p[k] = q[k]

\* the two invocations in flight are searches so related
PairedSearches ==
    /\ handler = "linear_search_issues"
    /\ suspended.handler = "linear_search_issues"
    /\ DifferOnlyInUnused(params, suspended.params)
    /\ ~IsNone(linear_client)
    /\ op = "search_issues"
    /\ suspended.op = "search_issues"

Empty(v) == v = Str(<<>>) \/ v = List(<<>>)

\* args with every empty string and empty list replaced by None
EmptiesAbsent(a) ==
    [k \in DOMAIN a |->
        IF k \in {"query", "team_id", "status", "assignee_id", "labels"} /\ Empty(a[k])
        THEN None ELSE a[k]]

\* C24: in a search an empty query, team identifier, status or assignee id
\* and an empty label list are treated as absent: the filter has no key for
\* them, an empty team identifier is looked up nowhere, and the requests are
\* those of the call with None in their place; priority 0 is treated as
\* provided: the filter holds priority.eq = 0.
C24_EmptyIsAbsentButPriorityZeroCounts ==
    op = "search_issues" =>
        /\ \A k \in 1..Len(sent) :
               /\ (sent[k].query = "Team" /\ sent[k].variables.key = args.team_id)
                      => ~Empty(args.team_id)
               /\ sent[k].query = "SearchIssues" =>
                      LET filter == sent[k].variables.filter IN
                      /\ \A f \in DOMAIN FilterArgument :
                             Empty(args[FilterArgument[f]]) => f \notin DOMAIN filter
                      /\ args.priority = Num(0) =>
                             /\ "priority" \in DOMAIN filter
                             /\ filter.priority = [eq |-> Num(0)]
                      /\ k = IF Given(args.team_id) /\ NoDash(args.team_id.str)
                             THEN 2 ELSE 1
                      /\ (k = 1 \/ HasTeam(received[1]) \/ NoTeam(received[1])) =>
                             sent[k].variables.filter =
                                 SearchFilter(EmptiesAbsent(args),
                                              IF k = 1 THEN EmptiesAbsent(args).team_id
                                              ELSE IF HasTeam(received[1])
                                                   THEN received[1].body.data.team.id
                                                   ELSE args.team_id)
        /\ Empty(args.team_id) => \A k \in 1..Len(sent) : sent[k].query # "Team"

\* a search with every text argument empty, no labels and priority 0 sent
\* one request, filtered on the priority alone
C24_Witness ==
    /\ op = "search_issues"
    /\ Replied
    /\ args.query = Str(<<>>)
    /\ args.team_id = Str(<<>>)
    /\ args.status = Str(<<>>)
    /\ args.assignee_id = Str(<<>>)
    /\ args.labels = List(<<>>)
    /\ args.priority = Num(0)
    /\ Len(sent) = 1
    /\ sent[1].query = "SearchIssues"
    /\ sent[1].variables.filter = [priority |-> [eq |-> Num(0)]]

====
